---- MODULE Spec2Model ----
(***************************************************************************)
(* Cache layer of init-expresss-api: the Cache Manager (prefix:identifier  *)
(* keys with expiry), the route cache middleware (routeCache), the model   *)
(* cache decorator (cacheableModel / autoCacheClearModel) and the call     *)
(* sites that use them (validateUser, POST /users/login, GET               *)
(* /users/register/config, GET /cache-demo).                               *)
(*                                                                         *)
(* Text is modelled as sequences of one-token strings so that template     *)
(* literals are concatenations and pattern matching is substring search.   *)
(* Time is in seconds.                                                     *)
(***************************************************************************)
EXTENDS Integers, Sequences, FiniteSets, TLC

VARIABLES
    now,      \* wall clock, seconds
    store,    \* the key-value store: key -> [val, exp, at, ttl]; an entry past
              \* its expiry stays in the map and is invisible to every read
    storeUp,  \* store connectivity
    db,       \* database connectivity: "up", or the error its queries raise
    cfg,      \* register-config row: 0 = no row, n > 0 = row at version n
    users,    \* user table: id -> [alive, ver]
    call,     \* in-flight calls of the cache-aside call sites, per slot
    rt,       \* requests inside routeCache and the handler behind it, per slot
    kg,       \* two requests and the cache keys generateCacheKey gave them
    wr,       \* the record write in progress and its post-write hook
    opt,      \* the options routeCache was created with
    cl        \* the cache-clearing call in progress (clearCache, clearRouteCache)

vars == <<now, store, storeUp, db, cfg, users, call, rt, kg, wr, opt, cl>>

----------------------------------------------------------------------------
(* Bounds of the model *)

NSlots == 2        \* concurrent requests: register config, routeCache, wrapped calls
NReaders == 1      \* concurrent callers: login, validateUser, reads beside a writer
MaxTicks == 2      \* steps of the clock
ShortStep == 150   \* clock step against TTL.SHORT
LongStep == 1800   \* clock step against TTL.MEDIUM
RouteStep == 30    \* clock step against the route's ttl
MaxVer == 2        \* highest row version a login's update reaches
MaxWrites == 2     \* writes per record through the hooked model
MaxCfg == 3        \* highest version the register-config row reaches

(* TTL tiers, seconds *)
TTL_SHORT == 300
TTL_MEDIUM == 3600
TTL_LONG == 86400

Slots == 1..NSlots
Readers == 1..NReaders

----------------------------------------------------------------------------
(* Values.  Every cached or fetched value is a record of one shape. *)

Null == [t |-> "null", a |-> 0, b |-> 0]
ConfigRow(v) == [t |-> "config", a |-> 1, b |-> v]
UserRow(id, v) == [t |-> "user", a |-> id, b |-> v]
Decoded(id) == [t |-> "jwt", a |-> id, b |-> 0]

(* Text *)
Colon == ":"

RECURSIVE Digits(_)
Digits(n) == IF n < 10 THEN <<ToString(n)>> ELSE Digits(n \div 10) \o <<ToString(n % 10)>>

IsSubstring(p, s) ==
    \E i \in 0..(Len(s) - Len(p)) : \A j \in 1..Len(p) : s[i + j] = p[j]

----------------------------------------------------------------------------
(* Cache Manager *)

PREFIX_USER == "USER"
PREFIX_TOKEN == "TOKEN"
PREFIX_CONFIG == "CONFIG"

KeyOf(prefix, ident) == [p |-> prefix, i |-> ident]

EmptyStore == [k \in {} |-> Null]

Live(s, t, k) == k \in DOMAIN s /\ t < s[k].exp

CacheGet_ErrorValue(s, t, up, prefix, ident) ==
    IF ~up THEN [t |-> "error", a |-> 0, b |-> 0, status |-> 500,
                 headers |-> [h \in {} |-> ""], body |-> 0]
    ELSE IF Live(s, t, KeyOf(prefix, ident)) THEN s[KeyOf(prefix, ident)].val ELSE Null

CacheGet(s, t, up, prefix, ident) ==
    IF up /\ Live(s, t, KeyOf(prefix, ident)) THEN s[KeyOf(prefix, ident)].val ELSE Null

CacheSet_Merge(s, t, prefix, ident, val, ttl) ==
    [k \in DOMAIN s \cup {KeyOf(prefix, ident)} |->
        IF k # KeyOf(prefix, ident) THEN s[k]
        ELSE IF k \in DOMAIN s /\ s[k].val.t = val.t
        THEN [val |-> [val EXCEPT !.b = s[k].val.b], exp |-> t + ttl, at |-> t, ttl |-> ttl]
        ELSE [val |-> val, exp |-> t + ttl, at |-> t, ttl |-> ttl]]

CacheSet(s, t, prefix, ident, val, ttl) ==
    [k \in DOMAIN s \cup {KeyOf(prefix, ident)} |->
        IF k = KeyOf(prefix, ident)
        THEN [val |-> val, exp |-> t + ttl, at |-> t, ttl |-> ttl] ELSE s[k]]

(* how the promise of set settles: a failed write is logged inside and the  *)
(* promise still resolves                                                  *)
SetOutcome_Rejects(up) == IF up THEN "resolved" ELSE "rejected"

SetOutcome(up) == "resolved"

CacheDelete(s, prefix, ident) ==
    [k \in DOMAIN s \ {KeyOf(prefix, ident)} |-> s[k]]

Matches(pattern, ident) == pattern = <<"*">> \/ IsSubstring(pattern, ident)

MatchingKeys_AnyPrefix(s, t, prefix, pattern) ==
    {k \in DOMAIN s : Live(s, t, k) /\ Matches(pattern, k.i)}

MatchingKeys(s, t, prefix, pattern) ==
    {k \in DOMAIN s : Live(s, t, k) /\ k.p = prefix /\ Matches(pattern, k.i)}

ClearByPattern(s, t, prefix, pattern) ==
    [k \in DOMAIN s \ MatchingKeys(s, t, prefix, pattern) |-> s[k]]


----------------------------------------------------------------------------
(* Database *)

DbErrors == {"ECONNREFUSED", "ETIMEDOUT"}
UserIds == {1, 10}
UsernameOf(id) == IF id = 1 THEN "alice" ELSE "bob"

(* Model.findByPk(id) on a reachable database *)
RowOf(u, id) == IF u[id].alive THEN UserRow(id, u[id].ver) ELSE Null

(* tokens presented to validateUser: every token this service signs starts *)
(* with the same encoded JOSE header                                        *)
TokenList == <<[head |-> "eyJhbGciOi", id |-> 1, ok |-> TRUE],
               [head |-> "eyJhbGciOi", id |-> 10, ok |-> TRUE],
               [head |-> "eyJhbGciOi", id |-> 1, ok |-> FALSE]>>

(* what a fetch function or a query gives: a value or an error raised; cfg  *)
(* is the register-config row after it                                      *)
Returned(v, c) == [raised |-> FALSE, err |-> "", val |-> v, cfg |-> c]
Raised(e, c) == [raised |-> TRUE, err |-> e, val |-> Null, cfg |-> c]

(* verifyToken: the decoded payload, or Null when jwt.verify throws *)
verifyToken(tok) == IF tok.ok THEN Decoded(tok.id) ELSE Null

----------------------------------------------------------------------------
(* Query conditions.  A where object is a sequence of entries; an entry's   *)
(* key is a string or an operator symbol (Op.or, Op.like, ...), its value a  *)
(* scalar (val: its JSON text) or a nested object (sub).                     *)

Chars_username == <<"u", "s", "e", "r", "n", "a", "m", "e">>
Json_alice == <<"\"", "a", "l", "i", "c", "e", "\"">>
Json_bob == <<"\"", "b", "o", "b", "\"">>
Json_pattern == <<"\"", "a", "\"">>

StrKey(name, json) == [sym |-> FALSE, name |-> name, obj |-> FALSE, val |-> json, sub |-> <<>>]
ObjKey(name, sub) == [sym |-> FALSE, name |-> name, obj |-> TRUE, val |-> <<>>, sub |-> sub]
SymKey(op, json) == [sym |-> TRUE, name |-> <<op>>, obj |-> FALSE, val |-> json, sub |-> <<>>]
SymObj(op, sub) == [sym |-> TRUE, name |-> <<op>>, obj |-> TRUE, val |-> <<>>, sub |-> sub]

(* where, and the ids of the rows that satisfy it *)
WhereList ==
    << [w |-> <<StrKey(Chars_username, Json_alice)>>, sat |-> {1}],
       [w |-> <<StrKey(Chars_username, Json_bob)>>, sat |-> {10}],
       [w |-> <<SymObj("or", <<StrKey(Chars_username, Json_alice)>>)>>, sat |-> {1, 10}],
       [w |-> <<ObjKey(Chars_username, <<SymKey("like", Json_pattern)>>)>>, sat |-> {1}] >>

(* Object.keys: the string keys; symbol keys are not enumerated *)
ObjectKeys(w) == SelectSeq(w, LAMBDA e : ~e.sym)

complexOperators == {"or", "and", "not", "notIn", "like", "notLike",
                     "regexp", "notRegexp", "between", "notBetween"}

RECURSIVE containsComplexOperators(_)
containsComplexOperators(where) ==
    LET keys == ObjectKeys(where)
    IN  \E i \in 1..Len(keys) :
            \/ keys[i].sym /\ keys[i].name[1] \in complexOperators
            \/ keys[i].obj /\ containsComplexOperators(keys[i].sub)

(* what the wrapper is meant to detect: an operator at any nesting depth *)
RECURSIVE UsesOperator(_)
UsesOperator(where) ==
    \E i \in 1..Len(where) :
        \/ where[i].sym /\ where[i].name[1] \in complexOperators
        \/ where[i].obj /\ UsesOperator(where[i].sub)

(* JSON.stringify of a where object: symbol keys are left out *)
RECURSIVE JsonStringify(_)
RECURSIVE JsonMembers(_)
JsonMembers(keys) ==
    IF keys = <<>> THEN <<>>
    ELSE LET e == Head(keys)
             member == <<"\"">> \o e.name \o <<"\"", ":">> \o
                       (IF e.obj THEN JsonStringify(e.sub) ELSE e.val)
         IN  IF Tail(keys) = <<>> THEN member
             ELSE member \o <<",">> \o JsonMembers(Tail(keys))
JsonStringify(w) == <<"{">> \o JsonMembers(ObjectKeys(w)) \o <<"}">>

CharCode ==
    [ch \in {"\"", ":", ",", "a", "b", "c", "e", "i", "l", "m", "n", "o", "r", "s", "u", "{", "}"} |->
        CASE ch = "\"" -> 34 [] ch = ":" -> 58 [] ch = "," -> 44
          [] ch = "a" -> 97 [] ch = "b" -> 98 [] ch = "c" -> 99 [] ch = "e" -> 101
          [] ch = "i" -> 105 [] ch = "l" -> 108 [] ch = "m" -> 109 [] ch = "n" -> 110
          [] ch = "o" -> 111 [] ch = "r" -> 114 [] ch = "s" -> 115 [] ch = "u" -> 117
          [] ch = "{" -> 123 [] ch = "}" -> 125]

(* hashString: hash = ((hash << 5) - hash) + char, kept to 32 bits; the     *)
(* running hash is <<high 16 bits, low 16 bits>>                             *)
HashStep(h, code) ==
    LET t == 31 * h[2] + code
    IN  <<(31 * h[1] + t \div 65536) % 65536, t % 65536>>

RECURSIVE HashFold(_, _)
HashFold(h, str) == IF str = <<>> THEN h ELSE HashFold(HashStep(h, CharCode[Head(str)]), Tail(str))

ToInt32(h) == IF h[1] >= 32768 THEN (h[1] - 65536) * 65536 + h[2] ELSE h[1] * 65536 + h[2]

hashString(str) == ToString(ToInt32(HashFold(<<0, 0>>, str)))

----------------------------------------------------------------------------
(* cacheableModel(User): the wrapped findByPk and findOne *)

ModelName == "User"
ModelPrefix == PREFIX_USER
ModelTtl == TTL_MEDIUM

(* the calls made on the wrapped model: where = 0 is a call without where;  *)
(* globalOff is a model wrapped with disableCache: true                      *)
Plain == [method |-> "findByPk", id |-> 1, where |-> 0, disableCache |-> FALSE,
          include |-> FALSE, transaction |-> FALSE, globalOff |-> FALSE]

WrappedCalls ==
    << Plain,
       [Plain EXCEPT !.id = 10],
       [Plain EXCEPT !.method = "findOne", !.id = 0, !.where = 1],
       [Plain EXCEPT !.include = TRUE],
       [Plain EXCEPT !.transaction = TRUE],
       [Plain EXCEPT !.disableCache = TRUE],
       [Plain EXCEPT !.globalOff = TRUE],
       [Plain EXCEPT !.method = "findOne", !.id = 0, !.where = 3],
       [Plain EXCEPT !.method = "findOne", !.id = 0, !.where = 4],
       [Plain EXCEPT !.method = "findOne", !.id = 0, !.where = 1, !.include = TRUE],
       [Plain EXCEPT !.method = "findOne", !.id = 0, !.where = 2, !.transaction = TRUE],
       [Plain EXCEPT !.method = "findOne", !.id = 0, !.where = 0] >>

SimpleCalls == 1..3
StaleCalls == {1, 3}

PkKey(id) == <<ModelName, Colon, "pk", Colon>> \o Digits(id)

OneKey(d) ==
    <<ModelName, Colon, "one", Colon,
      hashString(IF d.where # 0 THEN JsonStringify(WhereList[d.where].w) ELSE <<"a", "l", "l">>)>>

(* the wrapper's decision: call the original method directly, or go through *)
(* getOrFetch under the derived key                                          *)
Direct == [cache |-> FALSE, key |-> <<>>]
Cached(key) == [cache |-> TRUE, key |-> key]

WrappedPlan(d) ==
    IF d.globalOff THEN Direct
    ELSE IF d.disableCache THEN Direct
    ELSE IF d.method = "findByPk"
         THEN IF d.transaction THEN Direct ELSE Cached(PkKey(d.id))
    ELSE IF \/ d.include
            \/ d.transaction
            \/ (d.where # 0 /\ containsComplexOperators(WhereList[d.where].w))
         THEN Direct
    ELSE Cached(OneKey(d))

(* the original method on the database: raises when the database is down *)
(* options.include: the row comes back with its associated rows loaded *)
Included(d, row) ==
    IF d.include /\ row # Null THEN [row EXCEPT !.t = "user+include"] ELSE row

OriginalMethod(d, dbs, u, c) ==
    IF dbs # "up" THEN Raised(dbs, c)
    ELSE IF d.method = "findByPk" THEN Returned(Included(d, RowOf(u, d.id)), c)
    ELSE LET ids == {id \in UserIds : u[id].alive /\ (d.where = 0 \/ id \in WhereList[d.where].sat)}
         IN  IF ids = {} THEN Returned(Null, c)
             ELSE Returned(Included(d, RowOf(u, CHOOSE id \in ids : \A o \in ids : id <= o)), c)

----------------------------------------------------------------------------
(* Fetch functions handed to getOrFetch *)

getRegisterConfig_Swallow(d, c) ==
    IF d # "up" THEN Returned(Null, c)
    ELSE IF c = 0 THEN Returned(ConfigRow(1), 1)
    ELSE Returned(ConfigRow(c), c)

(* getRegisterConfig: findOne, create the default row when there is none, *)
(* rethrow whatever the model raises                                       *)
getRegisterConfig(d, c) ==
    IF d # "up" THEN Raised(d, c)
    ELSE IF c = 0 THEN Returned(ConfigRow(1), 1)
    ELSE Returned(ConfigRow(c), c)

(* getUserByUsername: User.findOne({where: {username}}), null on any error *)
getUserByUsername(d, u, id, c) ==
    IF d # "up" THEN Returned(Null, c) ELSE Returned(RowOf(u, id), c)

(* getUserById: userModel.findByPk(userId), null on any error *)
getUserById(d, u, id, c) ==
    IF d # "up" THEN Returned(Null, c) ELSE Returned(RowOf(u, id), c)

----------------------------------------------------------------------------
(* Call sites of the Cache Manager *)

IdleCall == [site |-> "none", arg |-> 0, pc |-> "idle", out |-> "none", val |-> Null,
             err |-> "", fetches |-> 0, wrote |-> FALSE, uid |-> 0, resp |-> "none"]

REGISTER_CONFIG_CACHE_KEY == <<"register-config">>

(* validateUser: tokenKey = `auth:${token.substring(0, 10)}` *)
TokenKey(tok) == <<"auth", Colon, tok.head>>
TokenTtl_Long == TTL_LONG
TokenTtl == TTL_SHORT

SitePrefix(c) ==
    CASE c.site = "config" -> PREFIX_CONFIG
      [] c.site = "login" -> PREFIX_USER
      [] c.site = "auth" -> PREFIX_USER
      [] c.site = "model" -> ModelPrefix

SiteIdent(c) ==
    CASE c.site = "config" -> REGISTER_CONFIG_CACHE_KEY
      [] c.site = "login" -> <<"by-username", Colon, UsernameOf(c.arg)>>
      [] c.site = "auth" -> Digits(c.uid)
      [] c.site = "model" -> WrappedPlan(WrappedCalls[c.arg]).key

SiteTtl_Medium(c) == TTL_MEDIUM

SiteTtl(c) ==
    CASE c.site = "config" -> TTL_MEDIUM
      [] c.site = "login" -> TTL_SHORT
      [] c.site = "auth" -> TTL_MEDIUM
      [] c.site = "model" -> ModelTtl

SiteFetch(c, d, u, g) ==
    CASE c.site = "config" -> getRegisterConfig(d, g)
      [] c.site = "login" -> getUserByUsername(d, u, c.arg, g)
      [] c.site = "auth" -> getUserById(d, u, c.uid, g)
      [] c.site = "model" -> OriginalMethod(WrappedCalls[c.arg], d, u, g)

----------------------------------------------------------------------------
(* CacheManager.getOrFetch(prefix, identifier, fetchFn, ttl), one action    *)
(* per segment between two awaits: the cache read, the fetch, the write.    *)

(* what the call site does with the value getOrFetch returned *)
AfterGetOrFetch(c) ==
    CASE c.site = "config" -> [c EXCEPT !.pc = "done", !.resp = "200"]
      [] c.site = "auth" ->
            IF c.val = Null THEN [c EXCEPT !.pc = "done", !.resp = "400"]
            ELSE [c EXCEPT !.pc = "done", !.resp = "next"]
      [] c.site = "login" ->
            IF c.val = Null THEN [c EXCEPT !.pc = "done", !.resp = "401"]
            ELSE [c EXCEPT !.pc = "password"]
      [] c.site = "model" -> [c EXCEPT !.pc = "done", !.resp = "value"]

(* the error of fetchFn leaves getOrFetch unchanged; asyncHandler and       *)
(* validateUser's catch turn it into a 500                                  *)
AfterRaise(c) == [c EXCEPT !.pc = "done", !.resp = "500"]

GofGet(r) ==
    /\ call[r].pc = "get"
    /\ LET c == call[r]
           v == CacheGet(store, now, storeUp, SitePrefix(c), SiteIdent(c))
       IN  call' = [call EXCEPT ![r] =
               IF v # Null
               THEN AfterGetOrFetch([c EXCEPT !.out = "hit", !.val = v])
               ELSE [c EXCEPT !.pc = "fetch"]]
    /\ UNCHANGED <<now, store, storeUp, db, cfg, users, rt, kg, wr, opt, cl>>

GofFetch_FailureClears(r) ==
    /\ call[r].pc = "fetch"
    /\ LET c == call[r]
           f == SiteFetch(c, db, users, cfg)
       IN  /\ call' = [call EXCEPT ![r] =
                  IF f.raised
                  THEN AfterRaise([c EXCEPT !.out = "raised", !.err = f.err,
                                            !.fetches = c.fetches + 1])
                  ELSE [c EXCEPT !.pc = "set", !.val = f.val,
                                 !.fetches = c.fetches + 1]]
           /\ cfg' = f.cfg
           /\ store' = IF f.raised THEN CacheDelete(store, SitePrefix(c), SiteIdent(c))
                       ELSE store
    /\ UNCHANGED <<now, storeUp, db, users, rt, kg, wr, opt, cl>>

GofFetch(r) ==
    /\ call[r].pc = "fetch"
    /\ LET c == call[r]
           f == SiteFetch(c, db, users, cfg)
       IN  /\ call' = [call EXCEPT ![r] =
                  IF f.raised
                  THEN AfterRaise([c EXCEPT !.out = "raised", !.err = f.err,
                                            !.fetches = c.fetches + 1])
                  ELSE [c EXCEPT !.pc = "set", !.val = f.val,
                                 !.fetches = c.fetches + 1]]
           /\ cfg' = f.cfg
    /\ UNCHANGED <<now, store, storeUp, db, users, rt, kg, wr, opt, cl>>

GofSet(r) ==
    /\ call[r].pc = "set"
    /\ LET c == call[r]
       IN  /\ store' = IF storeUp THEN CacheSet(store, now, SitePrefix(c), SiteIdent(c), c.val, SiteTtl(c)) ELSE store
           /\ call' = [call EXCEPT ![r] =
                  AfterGetOrFetch([c EXCEPT !.out = "fetched", !.wrote = storeUp])]
    /\ UNCHANGED <<now, storeUp, db, cfg, users, rt, kg, wr, opt, cl>>

----------------------------------------------------------------------------
(* GET /users/register/config *)

StartConfig(r) ==
    /\ call[r].pc = "idle"
    /\ call' = [call EXCEPT ![r] = [IdleCall EXCEPT !.site = "config", !.pc = "get"]]
    /\ UNCHANGED <<now, store, storeUp, db, cfg, users, rt, kg, wr, opt, cl>>

----------------------------------------------------------------------------
(* POST /users/register/config *)

PostConfigStart(r) ==
    /\ call[r].pc = "idle"
    /\ call' = [call EXCEPT ![r] = [IdleCall EXCEPT !.site = "cfgpost", !.pc = "cfgupdate"]]
    /\ UNCHANGED <<now, store, storeUp, db, cfg, users, rt, kg, wr, opt, cl>>

(* findOne, create({}) when there is no row, config.update({...}): the row  *)
(* gets its next version; a database error reaches asyncHandler             *)
PostConfigUpdate(r) ==
    /\ call[r].pc = "cfgupdate"
    /\ LET c == call[r]
           found == IF cfg = 0 THEN 1 ELSE cfg
       IN  IF db # "up"
           THEN /\ call' = [call EXCEPT ![r] = AfterRaise([c EXCEPT !.out = "raised", !.err = db])]
                /\ UNCHANGED cfg
           ELSE /\ found < MaxCfg
                /\ cfg' = found + 1
                /\ call' = [call EXCEPT ![r] = [c EXCEPT !.out = "updated", !.pc = "cfgrefetch"]]
    /\ UNCHANGED <<now, store, storeUp, db, users, rt, kg, wr, opt, cl>>

(* config = await registerConfigModel.findOne({ where: { id: config.id } }) *)
PostConfigRefetch(r) ==
    /\ call[r].pc = "cfgrefetch"
    /\ LET c == call[r]
       IN  call' = [call EXCEPT ![r] =
               IF db # "up" THEN AfterRaise([c EXCEPT !.err = db])
               ELSE [c EXCEPT !.val = ConfigRow(cfg), !.fetches = c.fetches + 1,
                              !.pc = "cfgset"]]
    /\ UNCHANGED <<now, store, storeUp, db, cfg, users, rt, kg, wr, opt, cl>>

(* await CacheManager.set(PREFIX.CONFIG, REGISTER_CONFIG_CACHE_KEY, config, *)
(* TTL.MEDIUM), not guarded: a rejection would reach asyncHandler; then     *)
(* res.sendSuccess('更新成功', config)                                       *)
PostConfigSet(r) ==
    /\ call[r].pc = "cfgset"
    /\ LET c == call[r]
       IN  /\ store' = IF storeUp
                       THEN CacheSet(store, now, PREFIX_CONFIG, REGISTER_CONFIG_CACHE_KEY,
                                     c.val, TTL_MEDIUM)
                       ELSE store
           /\ call' = [call EXCEPT ![r] =
                  IF SetOutcome(storeUp) = "rejected" THEN AfterRaise(c)
                  ELSE [c EXCEPT !.wrote = storeUp, !.pc = "done", !.resp = "200"]]
    /\ UNCHANGED <<now, storeUp, db, cfg, users, rt, kg, wr, opt, cl>>

----------------------------------------------------------------------------
(* validateUser *)

StartAuth(r, t) ==
    /\ call[r].pc = "idle"
    /\ call' = [call EXCEPT ![r] = [IdleCall EXCEPT !.site = "auth", !.arg = t, !.pc = "tokget"]]
    /\ UNCHANGED <<now, store, storeUp, db, cfg, users, rt, kg, wr, opt, cl>>

(* CacheManager.get(PREFIX.TOKEN, tokenKey), then verifyToken on a miss *)
AuthTokenGet(r) ==
    /\ call[r].pc = "tokget"
    /\ LET c == call[r]
           tok == TokenList[c.arg]
           cached == CacheGet(store, now, storeUp, PREFIX_TOKEN, TokenKey(tok))
           decoded == verifyToken(tok)
       IN  call' = [call EXCEPT ![r] =
               IF cached # Null THEN [c EXCEPT !.uid = cached.a, !.pc = "get"]
               ELSE IF decoded = Null THEN [c EXCEPT !.pc = "done", !.resp = "401"]
               ELSE [c EXCEPT !.uid = decoded.a, !.pc = "tokset"]]
    /\ UNCHANGED <<now, store, storeUp, db, cfg, users, rt, kg, wr, opt, cl>>

(* await CacheManager.set(PREFIX.TOKEN, tokenKey, decoded, TTL.SHORT), not  *)
(* guarded: a rejection would reach validateUser's catch                    *)
AuthTokenSet(r) ==
    /\ call[r].pc = "tokset"
    /\ LET c == call[r]
           tok == TokenList[c.arg]
       IN  /\ store' = IF storeUp THEN CacheSet(store, now, PREFIX_TOKEN, TokenKey(tok), Decoded(c.uid), TokenTtl) ELSE store
           /\ call' = [call EXCEPT ![r] =
                  IF SetOutcome(storeUp) = "rejected" THEN AfterRaise(c)
                  ELSE [c EXCEPT !.pc = "get"]]
    /\ UNCHANGED <<now, storeUp, db, cfg, users, rt, kg, wr, opt, cl>>

----------------------------------------------------------------------------
(* POST /users/login *)

StartLogin(r, id) ==
    /\ call[r].pc = "idle"
    /\ call' = [call EXCEPT ![r] = [IdleCall EXCEPT !.site = "login", !.arg = id, !.pc = "get"]]
    /\ UNCHANGED <<now, store, storeUp, db, cfg, users, rt, kg, wr, opt, cl>>

(* bcrypt.compare(password, user.password) *)
LoginPassword(r, valid) ==
    /\ call[r].pc = "password"
    /\ call' = [call EXCEPT ![r] =
           IF valid THEN [@ EXCEPT !.pc = "update"]
           ELSE [@ EXCEPT !.pc = "done", !.resp = "401"]]
    /\ UNCHANGED <<now, store, storeUp, db, cfg, users, rt, kg, wr, opt, cl>>

(* user.update({last_login}): a value read back from the cache is plain     *)
(* deserialized data without the model's instance methods                   *)
LoginUpdate(r) ==
    /\ call[r].pc = "update"
    /\ LET c == call[r]
       IN  IF c.out = "hit" \/ db # "up" \/ ~users[c.arg].alive
           THEN /\ call' = [call EXCEPT ![r] = [c EXCEPT !.pc = "done", !.resp = "500"]]
                /\ UNCHANGED users
           ELSE /\ users[c.arg].ver < MaxVer
                /\ users' = [users EXCEPT ![c.arg].ver = @ + 1]
                /\ call' = [call EXCEPT ![r] =
                       [c EXCEPT !.pc = "cache", !.val = UserRow(c.arg, users[c.arg].ver + 1)]]
    /\ UNCHANGED <<now, store, storeUp, db, cfg, rt, kg, wr, opt, cl>>

(* Promise.all([cacheUserToken(user.id, token), cacheUserInfo(user)]) *)
LoginCache(r) ==
    /\ call[r].pc = "cache"
    /\ LET c == call[r]
           tokenVal == [t |-> "token", a |-> c.arg, b |-> 0]
           s1 == CacheSet(store, now, PREFIX_TOKEN, Digits(c.arg), tokenVal, TTL_LONG)
       IN  /\ store' = IF storeUp THEN CacheSet(s1, now, PREFIX_USER, Digits(c.arg), c.val, TTL_MEDIUM) ELSE store
           /\ call' = [call EXCEPT ![r] = [c EXCEPT !.pc = "delete"]]
    /\ UNCHANGED <<now, storeUp, db, cfg, users, rt, kg, wr, opt, cl>>

(* CacheManager.delete(PREFIX.USER, `by-username:${username}`) *)
LoginDelete(r) ==
    /\ call[r].pc = "delete"
    /\ LET c == call[r]
           ident == <<"by-username", Colon, UsernameOf(c.arg)>>
       IN  /\ store' = IF storeUp THEN CacheDelete(store, PREFIX_USER, ident) ELSE store
           /\ call' = [call EXCEPT ![r] = [c EXCEPT !.pc = "done", !.resp = "200"]]
    /\ UNCHANGED <<now, storeUp, db, cfg, users, rt, kg, wr, opt, cl>>


----------------------------------------------------------------------------
(* generateCacheKey(req, prefix) *)

Anonymous == [auth |-> FALSE, id |-> 0]
Principal(id) == [auth |-> TRUE, id |-> id]

(* request bodies: the number of own keys, JSON.stringify, and its md5 *)
BodyList == <<[keys |-> 0, json |-> "{}", md5 |-> "99914b932bd37a50b983c5e7c90ae93b"],
              [keys |-> 0, json |-> "[]", md5 |-> "d751713988987e9331980363e24189ce"],
              [keys |-> 1, json |-> "{\"a\":1}", md5 |-> "bb6cb5c68df4652941caf652a366f2d8"],
              [keys |-> 2, json |-> "{\"a\":1,\"b\":2}", md5 |-> "608de49a4600dbb5b173492759792e4a"]>>

generateCacheKey(req, prefix) ==
    LET base == <<req.method, Colon>> \o req.url
        withUser == IF req.user.auth /\ req.user.id # 0
                    THEN <<"user", Colon>> \o Digits(req.user.id) \o <<Colon>> \o base
                    ELSE base
        withBody == IF req.method # "GET" /\ BodyList[req.body].keys > 0
                    THEN withUser \o <<Colon, BodyList[req.body].md5>>
                    ELSE withUser
    IN  IF prefix # "" THEN <<prefix, Colon>> \o withBody ELSE withBody

(* Object.keys(req.body) on a request whose body was never parsed: the     *)
(* second operand of && is evaluated only for a non-GET method             *)
generateCacheKeyRaises(method, hasBody) == method # "GET" /\ ~hasBody

KeyMethods == {"GET", "POST"}
KeyUrls == {<<"/items">>, <<"/items", Colon, "bb6cb5c68df4652941caf652a366f2d8">>, <<"/orders">>}
KeyPrincipals == {Anonymous} \cup {Principal(id) : id \in UserIds}
KeyRequests == [method : KeyMethods, url : KeyUrls, user : KeyPrincipals,
                body : 1..Len(BodyList)]

KeyIdle == [pc |-> "idle", a |-> CHOOSE q \in KeyRequests : TRUE,
            b |-> CHOOSE q \in KeyRequests : TRUE, ka |-> <<>>, kb |-> <<>>]

----------------------------------------------------------------------------
(* routeCache({ttl: 60, prefix: 'api:demo'}) in front of GET /cache-demo *)

RoutePrefix == "api:demo"
RouteTtl == 60

(* an option as the caller wrote it: left out, null, or a number *)
Undefined == [k |-> "undefined", n |-> 0]
JsNull == [k |-> "null", n |-> 0]
Num(n) == [k |-> "number", n |-> n]

DemoOptions == [ttl |-> Num(RouteTtl), cacheNonGetRequests |-> FALSE]

(* const { ttl = TTL.MEDIUM } = options: the default stands in for a value  *)
(* left out, never for null or 0; what is handed to set counts as seconds   *)
OptionTtl_Long(o) == TTL_LONG

OptionTtl(o) == IF o.ttl.k = "undefined" THEN TTL_MEDIUM ELSE o.ttl.n

PassThrough_Never(method, o) == FALSE

(* req.method !== 'GET' && !options.cacheNonGetRequests *)
PassThrough(method, o) == method # "GET" /\ ~o.cacheNonGetRequests

RouteIdle == [pc |-> "idle", method |-> "GET", nocache |-> FALSE, wrapped |-> FALSE,
              hdrs |-> [h \in {} |-> ""], status |-> 0, body |-> 0,
              read |-> FALSE, replay |-> FALSE, wrote |-> FALSE, nexts |-> 0]

RouteReq(q) ==
    [method |-> q.method,
     url |-> IF q.nocache THEN <<"/cache-demo", "?nocache=true">> ELSE <<"/cache-demo">>,
     user |-> Anonymous, body |-> 1]

RouteKey(q) == generateCacheKey(RouteReq(q), RoutePrefix)

(* header names are case-insensitive: String.prototype.toLowerCase on the  *)
(* names that occur                                                        *)
ToLower(name) ==
    CASE name = "X-Cache" -> "x-cache"
      [] name = "Content-Type" -> "content-type"
      [] name = "Content-Length" -> "content-length"
      [] name = "Content-Encoding" -> "content-encoding"
      [] OTHER -> name

(* res.set(name, v): the response keeps its headers under lower-case names, *)
(* which is how res.getHeaders() gives them back                            *)
SetHeader(h, name, v) ==
    [x \in DOMAIN h \cup {ToLower(name)} |-> IF x = ToLower(name) THEN v ELSE h[x]]

ReplayHeaders_All(h, stored) ==
    [x \in DOMAIN h \cup DOMAIN stored |-> IF x \in DOMAIN stored THEN stored[x] ELSE h[x]]

(* a hit sets every stored header but content-length and content-encoding *)
ReplayHeaders(h, stored) ==
    LET names == {x \in DOMAIN stored :
                     ToLower(x) \notin {"content-length", "content-encoding"}}
        lower == {ToLower(x) : x \in names}
    IN  [x \in DOMAIN h \cup lower |->
            IF x \in lower THEN stored[CHOOSE y \in names : ToLower(y) = x] ELSE h[x]]

shouldCache_Through400(q) == q.status <= 400

shouldCache(q) == q.status < 400

(* the synchronous part of the /cache-demo handler, before its timer *)
DemoHandlerEnter(q) ==
    IF q.nocache
    THEN [q EXCEPT !.hdrs = SetHeader(q.hdrs, "X-Cache", "BYPASS"), !.pc = "handler"]
    ELSE [q EXCEPT !.pc = "handler"]

----------------------------------------------------------------------------
(* autoCacheClearModel(User): writes to the model and their hooks *)

(* reported: what the write returned to its caller; raised: whether the     *)
(* hook's clearByPattern raised                                             *)
WriterIdle == [pc |-> "idle", kind |-> "none", id |-> 0, reported |-> "none",
               raised |-> FALSE]

(* the pattern a hook hands to clearByPattern *)
HookPattern(hookName, id) ==
    IF hookName \in {"afterBulkCreate", "afterBulkUpdate", "afterBulkDestroy"} THEN <<ModelName>>
    ELSE IF id # 0 THEN PkKey(id)
    ELSE <<ModelName>>

HookOf(kind) ==
    CASE kind = "create" -> "afterCreate"
      [] kind = "update" -> "afterUpdate"
      [] kind = "destroy" -> "afterDestroy"
      [] kind = "bulkCreate" -> "afterBulkCreate"
      [] kind = "bulkUpdate" -> "afterBulkUpdate"
      [] kind = "bulkDestroy" -> "afterBulkDestroy"

AfterHook_Propagate(w, raises) ==
    [w EXCEPT !.pc = "idle", !.reported = IF raises THEN "error" ELSE "success",
              !.raised = raises]

(* the hook's try/catch: whether clearByPattern returned or raised, the     *)
(* hook returns normally and the write resolves                             *)
AfterHook(w, raises) ==
    [w EXCEPT !.pc = "idle", !.reported = "success", !.raised = raises]

----------------------------------------------------------------------------
(* Cache-clearing calls: model.clearCache(idOrPattern) and the             *)
(* clearRouteCache middleware                                              *)

ClearIdle == [pc |-> "idle", site |-> "none", via |-> "none", prefix |-> "",
              pattern |-> <<>>, cleared |-> {}, raised |-> FALSE, nexts |-> 0,
              resp |-> "none", at |-> 0]

(* the arguments clearCache is called with: none, a record id (number or    *)
(* string), or a value of another type handed on as the pattern            *)
ClearArgs == {[k |-> "null", id |-> 0, raw |-> <<>>],
              [k |-> "id", id |-> 1, raw |-> <<>>],
              [k |-> "id", id |-> 10, raw |-> <<>>],
              [k |-> "id", id |-> 7, raw |-> <<>>],
              [k |-> "raw", id |-> 0, raw |-> <<"one">>]}

ClearCachePattern(arg) ==
    IF arg.k = "null" THEN <<ModelName>>
    ELSE IF arg.k = "id" THEN PkKey(arg.id)
    ELSE arg.raw

(* the options clearRouteCache is created with; pattern <<>> is none given *)
ClearRouteOptions == {[prefix |-> RoutePrefix, pattern |-> <<>>],
                      [prefix |-> RoutePrefix, pattern |-> <<"nocache">>],
                      [prefix |-> PREFIX_USER, pattern |-> PkKey(1)]}

(* clearByType(prefix) is clearByPattern(prefix, '*') *)
ClearCacheStart(arg) ==
    /\ cl.pc = "idle"
    /\ cl' = [ClearIdle EXCEPT !.pc = "clearing", !.site = "clearCache",
                               !.via = "clearByPattern", !.prefix = ModelPrefix,
                               !.pattern = ClearCachePattern(arg)]
    /\ UNCHANGED <<now, store, storeUp, db, cfg, users, call, rt, kg, wr, opt>>

ClearRouteStart(o) ==
    /\ cl.pc = "idle"
    /\ cl' = [ClearIdle EXCEPT !.pc = "clearing", !.site = "route", !.prefix = o.prefix,
                               !.via = IF o.pattern # <<>> THEN "clearByPattern"
                                       ELSE "clearByType",
                               !.pattern = IF o.pattern # <<>> THEN o.pattern ELSE <<"*">>]
    /\ UNCHANGED <<now, store, storeUp, db, cfg, users, call, rt, kg, wr, opt>>

AfterClear_Blocked(c, keys, raises) ==
    IF c.site = "route" /\ ~raises
    THEN [c EXCEPT !.pc = "done", !.cleared = keys, !.raised = raises,
                   !.nexts = @ + 1, !.resp = "success"]
    ELSE [c EXCEPT !.pc = "done", !.cleared = keys, !.raised = raises, !.resp = "keys"]

(* what follows the awaited clear: clearCache returns the keys, or [] from  *)
(* its catch; clearRouteCache logs and calls next(), from its try or from   *)
(* its catch, and the route's handler answers success                      *)
AfterClear(c, keys, raises) ==
    IF c.site = "route"
    THEN [c EXCEPT !.pc = "done", !.cleared = keys, !.raised = raises,
                   !.nexts = @ + 1, !.resp = "success"]
    ELSE [c EXCEPT !.pc = "done", !.cleared = keys, !.raised = raises, !.resp = "keys"]

(* the clear completes: on a reachable store it deletes and returns the     *)
(* matching keys; on an unreachable one it returns nothing deleted, or      *)
(* raises                                                                   *)
ClearSettle(raises) ==
    /\ cl.pc = "clearing"
    /\ raises => ~storeUp
    /\ store' = IF storeUp THEN ClearByPattern(store, now, cl.prefix, cl.pattern) ELSE store
    /\ cl' = AfterClear([cl EXCEPT !.at = now],
                         IF storeUp THEN MatchingKeys(store, now, cl.prefix, cl.pattern)
                         ELSE {}, raises)
    /\ UNCHANGED <<now, storeUp, db, cfg, users, call, rt, kg, wr, opt>>

ClearFinish ==
    /\ cl.pc = "done"
    /\ cl' = ClearIdle
    /\ UNCHANGED <<now, store, storeUp, db, cfg, users, call, rt, kg, wr, opt>>

----------------------------------------------------------------------------
(* Environment *)

(* the response has been sent; the slot serves the next request *)
Finish(r) ==
    /\ call[r].pc = "done"
    /\ call' = [call EXCEPT ![r] = IdleCall]
    /\ UNCHANGED <<now, store, storeUp, db, cfg, users, rt, kg, wr, opt, cl>>

(* time passes *)
Tick(step) ==
    /\ now + step <= MaxTicks * step
    /\ now' = now + step
    /\ UNCHANGED <<store, storeUp, db, cfg, users, call, rt, kg, wr, opt, cl>>

DbFail(e) ==
    /\ db = "up"
    /\ db' = e
    /\ UNCHANGED <<now, store, storeUp, cfg, users, call, rt, kg, wr, opt, cl>>

DbRecover ==
    /\ db # "up"
    /\ db' = "up"
    /\ UNCHANGED <<now, store, storeUp, cfg, users, call, rt, kg, wr, opt, cl>>

InitBase ==
    /\ now = 0
    /\ store = EmptyStore
    /\ storeUp = TRUE
    /\ db = "up"
    /\ cfg = 0
    /\ users = [id \in UserIds |-> [alive |-> TRUE, ver |-> 1]]
    /\ call = [r \in Slots |-> IdleCall]
    /\ rt = [r \in Slots |-> RouteIdle]
    /\ kg = KeyIdle
    /\ wr = WriterIdle
    /\ opt = DemoOptions
    /\ cl = ClearIdle

----------------------------------------------------------------------------
(* GET /users/register/config under database failures *)

NextConfig ==
    \/ \E r \in Slots : StartConfig(r)
    \/ \E r \in Slots : GofGet(r)
    \/ \E r \in Slots : GofFetch(r)
    \/ \E r \in Slots : GofSet(r)
    \/ \E r \in Slots : Finish(r)
    \/ Tick(LongStep)
    \/ \E e \in DbErrors : DbFail(e)
    \/ DbRecover

SpecConfig == InitBase /\ [][NextConfig]_vars

----------------------------------------------------------------------------
(* POST /users/login *)

NextLogin ==
    \/ \E r \in Readers, id \in UserIds : StartLogin(r, id)
    \/ \E r \in Readers : GofGet(r)
    \/ \E r \in Readers : GofFetch(r)
    \/ \E r \in Readers : GofSet(r)
    \/ \E r \in Readers, valid \in BOOLEAN : LoginPassword(r, valid)
    \/ \E r \in Readers : LoginUpdate(r)
    \/ \E r \in Readers : LoginCache(r)
    \/ \E r \in Readers : LoginDelete(r)
    \/ \E r \in Readers : Finish(r)
    \/ Tick(ShortStep)

SpecLogin == InitBase /\ [][NextLogin]_vars

----------------------------------------------------------------------------
(* validateUser *)

NextAuth ==
    \/ \E r \in Readers, t \in 1..Len(TokenList) : StartAuth(r, t)
    \/ \E r \in Readers : AuthTokenGet(r)
    \/ \E r \in Readers : AuthTokenSet(r)
    \/ \E r \in Readers : GofGet(r)
    \/ \E r \in Readers : GofFetch(r)
    \/ \E r \in Readers : GofSet(r)
    \/ \E r \in Readers : Finish(r)
    \/ Tick(ShortStep)

SpecAuth == InitBase /\ [][NextAuth]_vars

----------------------------------------------------------------------------
(* routeCache: the middleware returned *)

RouteStart(r, m, nc) ==
    /\ rt[r].pc = "idle"
    /\ LET q == [RouteIdle EXCEPT !.method = m, !.nocache = nc]
       IN  rt' = [rt EXCEPT ![r] =
               IF PassThrough(m, opt)
               THEN DemoHandlerEnter([q EXCEPT !.nexts = 1])
               ELSE [q EXCEPT !.pc = "get"]]
    /\ UNCHANGED <<now, store, storeUp, db, cfg, users, call, kg, wr, opt, cl>>

(* a request whose req.body is undefined: keyGenerator(req, prefix) is      *)
(* called before the try block, so what it raises rejects the middleware's *)
(* promise: no response is sent and next is not called                     *)
RouteStartNoBody(r, m) ==
    /\ rt[r].pc = "idle"
    /\ LET q == [RouteIdle EXCEPT !.method = m]
       IN  rt' = [rt EXCEPT ![r] =
               IF PassThrough(m, opt)
               THEN DemoHandlerEnter([q EXCEPT !.nexts = 1])
               ELSE IF generateCacheKeyRaises(m, FALSE)
                    THEN [q EXCEPT !.pc = "rejected"]
                    ELSE [q EXCEPT !.pc = "get"]]
    /\ UNCHANGED <<now, store, storeUp, db, cfg, users, call, kg, wr, opt, cl>>

(* const cachedResponse = await CacheManager.get(prefix, cacheKey) *)
RouteGet(r) ==
    /\ rt[r].pc = "get"
    /\ LET q == rt[r]
           cached == CacheGet(store, now, storeUp, RoutePrefix, RouteKey(q))
       IN  rt' = [rt EXCEPT ![r] =
               IF cached # Null
               THEN [q EXCEPT !.read = TRUE, !.replay = TRUE, !.pc = "done",
                              !.status = cached.status,
                              !.hdrs = ReplayHeaders(SetHeader(q.hdrs, "X-Cache", "HIT"),
                                                     cached.headers),
                              !.body = cached.body]
               ELSE DemoHandlerEnter([q EXCEPT !.read = TRUE, !.wrapped = TRUE, !.nexts = 1,
                                               !.hdrs = SetHeader(q.hdrs, "X-Cache", "MISS")])]
    /\ UNCHANGED <<now, store, storeUp, db, cfg, users, call, kg, wr, opt, cl>>

RouteHandler_WriteFirst(r) ==
    /\ rt[r].pc = "handler"
    /\ rt' = [rt EXCEPT ![r] = [rt[r] EXCEPT !.pc = IF rt[r].wrapped THEN "write" ELSE "done"]]
    /\ UNCHANGED <<now, store, storeUp, db, cfg, users, call, kg, wr, opt, cl>>

(* the handler's timer fires: res.json(...) goes through the wrapped send,  *)
(* which sends first and then starts the cache write                        *)
RouteHandler(r) ==
    /\ rt[r].pc = "handler"
    /\ LET q == rt[r]
           sent == [q EXCEPT !.status = 200, !.body = now,
                             !.hdrs = SetHeader(SetHeader(q.hdrs, "content-type", "application/json"),
                                                "content-length", "n")]
       IN  rt' = [rt EXCEPT ![r] =
               IF sent.wrapped /\ shouldCache(sent)
               THEN [sent EXCEPT !.pc = "write"]
               ELSE [sent EXCEPT !.pc = "done"]]
    /\ UNCHANGED <<now, store, storeUp, db, cfg, users, call, kg, wr, opt, cl>>

(* CacheManager.set(prefix, cacheKey, responseToCache, ttl) completes *)
RouteWrite(r) ==
    /\ rt[r].pc = "write"
    /\ LET q == rt[r]
           responseToCache == [t |-> "resp", status |-> q.status, headers |-> q.hdrs,
                               body |-> q.body]
       IN  /\ store' = IF storeUp
                       THEN CacheSet(store, now, RoutePrefix, RouteKey(q), responseToCache, OptionTtl(opt))
                       ELSE store
           /\ rt' = [rt EXCEPT ![r] = [q EXCEPT !.pc = "done", !.wrote = storeUp]]
    /\ UNCHANGED <<now, storeUp, db, cfg, users, call, kg, wr, opt, cl>>

RouteFinish(r) ==
    /\ rt[r].pc \in {"done", "rejected"}
    /\ rt' = [rt EXCEPT ![r] = RouteIdle]
    /\ UNCHANGED <<now, store, storeUp, db, cfg, users, call, kg, wr, opt, cl>>

RouteTick ==
    /\ now + RouteStep <= MaxTicks * RouteStep
    /\ now' = now + RouteStep
    /\ UNCHANGED <<store, storeUp, db, cfg, users, call, rt, kg, wr, opt, cl>>

NextRoute ==
    \/ \E r \in Slots, m \in {"GET", "POST"}, nc \in BOOLEAN : RouteStart(r, m, nc)
    \/ \E r \in Slots : RouteGet(r)
    \/ \E r \in Slots : RouteHandler(r)
    \/ \E r \in Slots : RouteWrite(r)
    \/ \E r \in Slots : RouteFinish(r)
    \/ RouteTick

SpecRoute == InitBase /\ [][NextRoute]_vars

----------------------------------------------------------------------------
(* generateCacheKey applied to every pair of requests *)

InitKey ==
    /\ now = 0
    /\ store = EmptyStore
    /\ storeUp = TRUE
    /\ db = "up"
    /\ cfg = 0
    /\ users = [id \in UserIds |-> [alive |-> TRUE, ver |-> 1]]
    /\ call = [r \in Slots |-> IdleCall]
    /\ rt = [r \in Slots |-> RouteIdle]
    /\ wr = WriterIdle
    /\ opt = DemoOptions
    /\ cl = ClearIdle
    /\ \E a, b \in KeyRequests : kg = [KeyIdle EXCEPT !.a = a, !.b = b]

KeyCompute ==
    /\ kg.pc = "idle"
    /\ kg' = [kg EXCEPT !.pc = "done",
                        !.ka = generateCacheKey(kg.a, RoutePrefix),
                        !.kb = generateCacheKey(kg.b, RoutePrefix)]
    /\ UNCHANGED <<now, store, storeUp, db, cfg, users, call, rt, wr, opt, cl>>

NextKey == KeyCompute

SpecKey == InitKey /\ [][NextKey]_vars

----------------------------------------------------------------------------
(* The wrapped model methods *)

StartWrapped(r, i) ==
    /\ call[r].pc = "idle"
    /\ call' = [call EXCEPT ![r] =
           [IdleCall EXCEPT !.site = "model", !.arg = i,
                            !.pc = IF WrappedPlan(WrappedCalls[i]).cache THEN "get" ELSE "direct"]]
    /\ UNCHANGED <<now, store, storeUp, db, cfg, users, rt, kg, wr, opt, cl>>

(* originalMethod.apply(model, args) *)
DirectCall(r) ==
    /\ call[r].pc = "direct"
    /\ LET c == call[r]
           f == OriginalMethod(WrappedCalls[c.arg], db, users, cfg)
       IN  call' = [call EXCEPT ![r] =
               IF f.raised
               THEN [c EXCEPT !.pc = "done", !.out = "raised", !.err = f.err, !.resp = "500"]
               ELSE [c EXCEPT !.pc = "done", !.out = "direct", !.val = f.val, !.resp = "value"]]
    /\ UNCHANGED <<now, store, storeUp, db, cfg, users, rt, kg, wr, opt, cl>>

(* Model.create / instance.update / instance.destroy reach the database *)
WriteStart(kind, id) ==
    /\ wr.pc = "idle"
    /\ db = "up"
    /\ users[id].ver <= MaxWrites
    /\ users[id].alive = (kind # "create")
    /\ users' = [users EXCEPT ![id] = [alive |-> kind # "destroy", ver |-> @.ver + 1]]
    /\ wr' = [WriterIdle EXCEPT !.pc = "hook", !.kind = kind, !.id = id]
    /\ UNCHANGED <<now, store, storeUp, db, cfg, call, rt, kg, opt, cl>>

(* the hook: clearByPattern, whose failure is logged and swallowed; the     *)
(* write then reports success                                               *)
WriteHook ==
    /\ wr.pc = "hook"
    /\ store' = IF storeUp
                THEN ClearByPattern(store, now, ModelPrefix, HookPattern(HookOf(wr.kind), wr.id))
                ELSE store
    /\ wr' = AfterHook(wr, FALSE)
    /\ UNCHANGED <<now, storeUp, db, cfg, users, call, rt, kg, opt, cl>>

(* clearByPattern raises on the unreachable store: the hook's catch logs it *)
WriteHookRaise ==
    /\ wr.pc = "hook"
    /\ ~storeUp
    /\ wr' = AfterHook(wr, TRUE)
    /\ UNCHANGED <<now, store, storeUp, db, cfg, users, call, rt, kg, opt, cl>>

(* Model.bulkCreate / Model.update / Model.destroy with a where: every row  *)
(* the statement touches gets its next version                              *)
BulkWriteStart(kind) ==
    /\ wr.pc = "idle"
    /\ db = "up"
    /\ \A id \in UserIds : users[id].ver <= MaxWrites
    /\ users' = [id \in UserIds |->
                    IF users[id].alive = (kind # "bulkCreate")
                    THEN [alive |-> kind # "bulkDestroy", ver |-> users[id].ver + 1]
                    ELSE users[id]]
    /\ wr' = [WriterIdle EXCEPT !.pc = "hook", !.kind = kind]
    /\ UNCHANGED <<now, store, storeUp, db, cfg, call, rt, kg, opt, cl>>

(* BaseService.getOrSetCache(key, fetchFunction, ttl = 3600), one action    *)
(* per segment between two awaits. The fetch functions handed to it:        *)
(* () => User.findByPk(1), which returns the row, null when the record is   *)
(* gone, or raises the database's error; and a function that returns        *)
(* undefined.                                                               *)
ServicePrefix == "service"
ServiceKey == <<"user", Colon, "1">>
ServiceTtl == 3600
JsUndefined == [t |-> "undefined", a |-> 0, b |-> 0]
ServiceFetches == {"findByPk", "void"}

fetchFunction(c, d, u, g) ==
    IF c.err = "void" THEN Returned(JsUndefined, g) ELSE OriginalMethod(Plain, d, u, g)

ShouldStore_Always(freshData) == TRUE

(* freshData !== null && freshData !== undefined *)
ShouldStore(freshData) == freshData # Null /\ freshData # JsUndefined

SvcStart(r, f) ==
    /\ call[r].pc = "idle"
    /\ call' = [call EXCEPT ![r] =
           [IdleCall EXCEPT !.site = "service", !.pc = "svcget", !.err = f]]
    /\ UNCHANGED <<now, store, storeUp, db, cfg, users, rt, kg, wr, opt, cl>>

(* const cachedData = await this.cache.get('service', key) *)
SvcGet(r) ==
    /\ call[r].pc = "svcget"
    /\ LET c == call[r]
           cachedData == CacheGet(store, now, storeUp, ServicePrefix, ServiceKey)
       IN  call' = [call EXCEPT ![r] =
               IF cachedData # Null
               THEN [c EXCEPT !.pc = "done", !.out = "hit", !.val = cachedData,
                              !.resp = "value"]
               ELSE [c EXCEPT !.pc = "svcfetch"]]
    /\ UNCHANGED <<now, store, storeUp, db, cfg, users, rt, kg, wr, opt, cl>>

(* const freshData = await fetchFunction(): what it raises is caught by the *)
(* method's own catch block                                                 *)
SvcFetch(r) ==
    /\ call[r].pc = "svcfetch"
    /\ LET c == call[r]
           f == fetchFunction(c, db, users, cfg)
           n == [c EXCEPT !.fetches = c.fetches + 1]
       IN  /\ call' = [call EXCEPT ![r] =
                  IF f.raised THEN [n EXCEPT !.pc = "svccatch"]
                  ELSE IF ShouldStore(f.val) THEN [n EXCEPT !.pc = "svcset", !.val = f.val]
                  ELSE [n EXCEPT !.pc = "done", !.out = "fetched", !.val = f.val,
                                 !.resp = "value"]]
           /\ cfg' = f.cfg
    /\ UNCHANGED <<now, store, storeUp, db, users, rt, kg, wr, opt, cl>>

(* await this.cache.set('service', key, freshData, ttl); return freshData *)
SvcSet(r) ==
    /\ call[r].pc = "svcset"
    /\ LET c == call[r]
       IN  /\ store' = IF storeUp
                       THEN CacheSet(store, now, ServicePrefix, ServiceKey, c.val, ServiceTtl)
                       ELSE store
           /\ call' = [call EXCEPT ![r] =
                  [c EXCEPT !.pc = "done", !.out = "fetched", !.wrote = storeUp,
                            !.resp = "value"]]
    /\ UNCHANGED <<now, storeUp, db, cfg, users, rt, kg, wr, opt, cl>>

(* catch (error) { log; return await fetchFunction() }: fetchFunction is    *)
(* invoked again, and what it returns or raises now is the call's outcome   *)
SvcCatch(r) ==
    /\ call[r].pc = "svccatch"
    /\ LET c == call[r]
           f == fetchFunction(c, db, users, cfg)
           n == [c EXCEPT !.fetches = c.fetches + 1, !.pc = "done"]
       IN  /\ call' = [call EXCEPT ![r] =
                  IF f.raised THEN [n EXCEPT !.out = "raised", !.resp = "raised"]
                  ELSE [n EXCEPT !.out = "refetched", !.val = f.val, !.resp = "value"]]
           /\ cfg' = f.cfg
    /\ UNCHANGED <<now, store, storeUp, db, users, rt, kg, wr, opt, cl>>

(* a second model, UserProfile, wrapped with the same prefix: its           *)
(* findByPk(1) on a cold key goes through getOrFetch and stores the row     *)
(* under UserProfile:pk:1                                                   *)
OtherModelName == <<ModelName, "Profile">>
OtherPkKey(id) == OtherModelName \o <<Colon, "pk", Colon>> \o Digits(id)
ProfileRow(id) == [t |-> "profile", a |-> id, b |-> 1]

OtherModelFindByPk(id) ==
    /\ storeUp
    /\ db = "up"
    /\ CacheGet(store, now, storeUp, ModelPrefix, OtherPkKey(id)) = Null
    /\ store' = CacheSet(store, now, ModelPrefix, OtherPkKey(id), ProfileRow(id), ModelTtl)
    /\ UNCHANGED <<now, storeUp, db, cfg, users, call, rt, kg, wr, opt, cl>>

StoreFail ==
    /\ storeUp
    /\ storeUp' = FALSE
    /\ UNCHANGED <<now, store, db, cfg, users, call, rt, kg, wr, opt, cl>>

StoreRecover ==
    /\ ~storeUp
    /\ storeUp' = TRUE
    /\ UNCHANGED <<now, store, db, cfg, users, call, rt, kg, wr, opt, cl>>

StepGetOrFetch ==
    \/ \E r \in Readers : GofGet(r)
    \/ \E r \in Readers : GofFetch(r)
    \/ \E r \in Readers : GofSet(r)
    \/ \E r \in Readers : Finish(r)

StepValidateUser ==
    \/ \E r \in Readers, t \in 1..Len(TokenList) : StartAuth(r, t)
    \/ \E r \in Readers : AuthTokenGet(r)
    \/ \E r \in Readers : AuthTokenSet(r)

StepWrite ==
    \/ \E kind \in {"create", "update", "destroy"}, id \in UserIds : WriteStart(kind, id)
    \/ WriteHook

(* cached lookups and writes, the store failing and recovering *)
NextModel ==
    \/ (\E r \in Readers, i \in SimpleCalls : StartWrapped(r, i))
    \/ StepGetOrFetch
    \/ StepWrite
    \/ StoreFail
    \/ StoreRecover

SpecModel == InitBase /\ [][NextModel]_vars

(* cached lookups of one record, by key, by name and by validateUser, and   *)
(* writes, every hook reaching the store                                    *)
NextStale ==
    \/ (\E r \in Readers, i \in StaleCalls : StartWrapped(r, i))
    \/ StepValidateUser
    \/ StepGetOrFetch
    \/ StepWrite

SpecStale == InitBase /\ [][NextStale]_vars

(* every kind of call on the wrapped model *)
NextWrap ==
    \/ \E r \in Slots, i \in 1..Len(WrappedCalls) : StartWrapped(r, i)
    \/ \E r \in Slots : DirectCall(r)
    \/ \E r \in Slots : GofGet(r)
    \/ \E r \in Slots : GofFetch(r)
    \/ \E r \in Slots : GofSet(r)
    \/ \E r \in Slots : Finish(r)

SpecWrap == InitBase /\ [][NextWrap]_vars

----------------------------------------------------------------------------
(* the register configuration read and updated concurrently *)

NextConfigWrite ==
    \/ \E r \in Slots : StartConfig(r)
    \/ \E r \in Slots : GofGet(r)
    \/ \E r \in Slots : GofFetch(r)
    \/ \E r \in Slots : GofSet(r)
    \/ \E r \in Slots : PostConfigStart(r)
    \/ \E r \in Slots : PostConfigUpdate(r)
    \/ \E r \in Slots : PostConfigRefetch(r)
    \/ \E r \in Slots : PostConfigSet(r)
    \/ \E r \in Slots : Finish(r)
    \/ \E e \in DbErrors : DbFail(e)
    \/ DbRecover

SpecConfigWrite == InitBase /\ [][NextConfigWrite]_vars

----------------------------------------------------------------------------
(* routeCache created with any options, in front of any handler *)

RouteOptions == [ttl : {Undefined, JsNull, Num(0), Num(RouteTtl)},
                 cacheNonGetRequests : BOOLEAN]

HandlerStatuses == {200, 399, 400, 500}
HandlerBodies == {1, 2}

(* a handler answers with res.status(status).send(body); on the cached     *)
(* path send is the wrapped one, which sends first and then starts the     *)
(* cache write when shouldCache holds                                      *)
AnyHandler(r, status, body, enc) ==
    /\ rt[r].pc = "handler"
    /\ LET q == rt[r]
           typed == SetHeader(SetHeader(q.hdrs, "Content-Type", "application/json"),
                              "Content-Length", "n")
           sent == [q EXCEPT !.status = status, !.body = body,
                             !.hdrs = IF enc THEN SetHeader(typed, "Content-Encoding", "gzip")
                                      ELSE typed]
       IN  rt' = [rt EXCEPT ![r] =
               IF sent.wrapped /\ shouldCache(sent)
               THEN [sent EXCEPT !.pc = "write"]
               ELSE [sent EXCEPT !.pc = "done"]]
    /\ UNCHANGED <<now, store, storeUp, db, cfg, users, call, kg, wr, opt, cl>>

InitOptions ==
    /\ now = 0
    /\ store = EmptyStore
    /\ storeUp = TRUE
    /\ db = "up"
    /\ cfg = 0
    /\ users = [id \in UserIds |-> [alive |-> TRUE, ver |-> 1]]
    /\ call = [r \in Slots |-> IdleCall]
    /\ rt = [r \in Slots |-> RouteIdle]
    /\ kg = KeyIdle
    /\ wr = WriterIdle
    /\ opt \in RouteOptions
    /\ cl = ClearIdle

NextOptions ==
    \/ \E r \in Readers, m \in {"GET", "POST"} : RouteStart(r, m, FALSE)
    \/ \E r \in Readers : RouteGet(r)
    \/ \E r \in Readers, st \in HandlerStatuses, b \in HandlerBodies, enc \in BOOLEAN :
           AnyHandler(r, st, b, enc)
    \/ \E r \in Readers : RouteWrite(r)
    \/ \E r \in Readers : RouteFinish(r)

SpecOptions == InitOptions /\ [][NextOptions]_vars

----------------------------------------------------------------------------
(* clearCache and clearRouteCache over a store filled by the wrapped model  *)
(* and by one request at a time on the cached route                         *)

NextClear ==
    \/ \E r \in Readers, i \in SimpleCalls : StartWrapped(r, i)
    \/ StepGetOrFetch
    \/ RouteStart(1, "GET", FALSE)
    \/ RouteGet(1)
    \/ RouteHandler(1)
    \/ RouteWrite(1)
    \/ RouteFinish(1)
    \/ \E arg \in ClearArgs : ClearCacheStart(arg)
    \/ \E o \in ClearRouteOptions : ClearRouteStart(o)
    \/ \E raises \in BOOLEAN : ClearSettle(raises)
    \/ ClearFinish

SpecClear == InitBase /\ [][NextClear]_vars

(* the clearRouteCache middleware in front of its handler, the store        *)
(* failing and recovering                                                   *)
NextClearRoute ==
    \/ \E r \in Readers, m \in {"GET", "POST"} : RouteStart(r, m, FALSE)
    \/ \E r \in Readers : RouteGet(r)
    \/ \E r \in Readers : RouteHandler(r)
    \/ \E r \in Readers : RouteWrite(r)
    \/ \E r \in Readers : RouteFinish(r)
    \/ \E o \in ClearRouteOptions : ClearRouteStart(o)
    \/ \E raises \in BOOLEAN : ClearSettle(raises)
    \/ ClearFinish
    \/ StoreFail
    \/ StoreRecover
    \/ RouteTick

SpecClearRoute == InitBase /\ [][NextClearRoute]_vars

----------------------------------------------------------------------------
(* single-record and bulk writes through the hooked model, their hooks      *)
(* reaching the store or failing to, beside one cached lookup at a time     *)

NextHooks ==
    \/ \E i \in StaleCalls : StartWrapped(1, i)
    \/ GofGet(1)
    \/ GofFetch(1)
    \/ GofSet(1)
    \/ Finish(1)
    \/ StepWrite
    \/ \E kind \in {"bulkCreate", "bulkUpdate", "bulkDestroy"} : BulkWriteStart(kind)
    \/ WriteHookRaise
    \/ StoreFail
    \/ StoreRecover

SpecHooks == InitBase /\ [][NextHooks]_vars

----------------------------------------------------------------------------
(* authenticated and cached requests while the store fails and recovers;    *)
(* the database stays reachable                                             *)

NextDegraded ==
    \/ StepValidateUser
    \/ StepGetOrFetch
    \/ \E r \in Readers : RouteStart(r, "GET", FALSE)
    \/ \E r \in Readers : RouteGet(r)
    \/ \E r \in Readers : RouteHandler(r)
    \/ \E r \in Readers : RouteWrite(r)
    \/ \E r \in Readers : RouteFinish(r)
    \/ StoreFail
    \/ StoreRecover

SpecDegraded == InitBase /\ [][NextDegraded]_vars

(* the register configuration read and updated, and the cached route, while *)
(* the store fails and recovers                                             *)
NextWriteFails ==
    \/ \E r \in Readers : StartConfig(r)
    \/ \E r \in Readers : PostConfigStart(r)
    \/ \E r \in Readers : PostConfigUpdate(r)
    \/ \E r \in Readers : PostConfigRefetch(r)
    \/ \E r \in Readers : PostConfigSet(r)
    \/ StepGetOrFetch
    \/ \E r \in Readers : RouteStart(r, "GET", FALSE)
    \/ \E r \in Readers : RouteGet(r)
    \/ \E r \in Readers : RouteHandler(r)
    \/ \E r \in Readers : RouteWrite(r)
    \/ \E r \in Readers : RouteFinish(r)
    \/ StoreFail
    \/ StoreRecover

SpecWriteFails == InitBase /\ [][NextWriteFails]_vars

----------------------------------------------------------------------------
(* the cached route and clearRouteCache on its prefix, interleaved, as time *)
(* passes                                                                   *)

NextRouteClear ==
    \/ \E r \in Slots : RouteStart(r, "GET", FALSE)
    \/ \E r \in Slots : RouteGet(r)
    \/ \E r \in Slots : RouteHandler(r)
    \/ \E r \in Slots : RouteWrite(r)
    \/ \E r \in Slots : RouteFinish(r)
    \/ \E o \in ClearRouteOptions : ClearRouteStart(o)
    \/ ClearSettle(FALSE)
    \/ ClearFinish
    \/ RouteTick

SpecRouteClear == InitBase /\ [][NextRouteClear]_vars

----------------------------------------------------------------------------
(* the middleware returned by routeCache, for requests with and without a   *)
(* parsed body, on a store that can fail                                    *)

NextMiddleware ==
    \/ \E r \in Readers, m \in {"GET", "POST"} : RouteStart(r, m, FALSE)
    \/ \E r \in Readers, m \in {"GET", "POST"} : RouteStartNoBody(r, m)
    \/ \E r \in Readers : RouteGet(r)
    \/ \E r \in Readers : RouteHandler(r)
    \/ \E r \in Readers : RouteWrite(r)
    \/ \E r \in Readers : RouteFinish(r)
    \/ StoreFail
    \/ StoreRecover

SpecMiddleware == InitOptions /\ [][NextMiddleware]_vars

----------------------------------------------------------------------------
(* bulk writes on the wrapped User model while a second model caches under  *)
(* the same prefix                                                          *)

NextBulk ==
    \/ \E i \in SimpleCalls : StartWrapped(1, i)
    \/ GofGet(1)
    \/ GofFetch(1)
    \/ GofSet(1)
    \/ Finish(1)
    \/ \E id \in UserIds : OtherModelFindByPk(id)
    \/ \E kind \in {"bulkCreate", "bulkUpdate", "bulkDestroy"} : BulkWriteStart(kind)
    \/ WriteHook

SpecBulk == InitBase /\ [][NextBulk]_vars

----------------------------------------------------------------------------
(* overlapping findByPk(1) calls on the wrapped model, while the record is  *)
(* written and the database fails and recovers                              *)

NextRace ==
    \/ \E r \in Slots : StartWrapped(r, 1)
    \/ \E r \in Slots : GofGet(r)
    \/ \E r \in Slots : GofFetch(r)
    \/ \E r \in Slots : GofSet(r)
    \/ \E r \in Slots : Finish(r)
    \/ WriteStart("update", 1)
    \/ WriteHook
    \/ \E e \in DbErrors : DbFail(e)
    \/ DbRecover

SpecRace == InitBase /\ [][NextRace]_vars

----------------------------------------------------------------------------
(* BaseService.getOrSetCache over a record that is created and destroyed,   *)
(* the database and the store failing and recovering                        *)

NextService ==
    \/ \E r \in Readers, f \in ServiceFetches : SvcStart(r, f)
    \/ \E r \in Readers : SvcGet(r)
    \/ \E r \in Readers : SvcFetch(r)
    \/ \E r \in Readers : SvcSet(r)
    \/ \E r \in Readers : SvcCatch(r)
    \/ \E r \in Readers : Finish(r)
    \/ \E kind \in {"create", "destroy"} : WriteStart(kind, 1)
    \/ WriteHook
    \/ \E e \in DbErrors : DbFail(e)
    \/ DbRecover
    \/ StoreFail
    \/ StoreRecover

SpecService == InitBase /\ [][NextService]_vars

----------------------------------------------------------------------------
(* Properties *)

ConfigKey == KeyOf(PREFIX_CONFIG, REGISTER_CONFIG_CACHE_KEY)
LoginKey(id) == KeyOf(PREFIX_USER, <<"by-username", Colon, UsernameOf(id)>>)
AuthTokenKey == KeyOf(PREFIX_TOKEN, <<"auth", Colon, "eyJhbGciOi">>)

(* C1: when the register-config fetch fails during getOrFetch on a miss, the *)
(* call ends with that same error, the store is left as it was, and a call   *)
(* that finds the key absent goes on to invoke fetchFn                       *)
C1_FetchErrorNotCached ==
    [][\A r \in Slots :
          /\ (call[r].pc = "fetch" /\ db # "up" /\ call'[r] # call[r]) =>
                /\ call'[r].out = "raised"
                /\ call'[r].err = db
                /\ call'[r].fetches = call[r].fetches + 1
                /\ ~call'[r].wrote
                /\ store' = store
          /\ (call[r].pc = "get" /\ call'[r] # call[r]
                /\ CacheGet(store, now, storeUp, PREFIX_CONFIG, REGISTER_CONFIG_CACHE_KEY) = Null) =>
                call'[r].pc = "fetch"]_vars

(* a call failed, nothing is cached, and the next call is fetching again *)
C1_Witness ==
    \E r, q \in Slots :
        /\ call[r].out = "raised" /\ call[r].err \in DbErrors
        /\ CacheGet(store, now, storeUp, PREFIX_CONFIG, REGISTER_CONFIG_CACHE_KEY) = Null
        /\ call[q].pc = "fetch" /\ q # r

(* C9: a login lookup that finds USER:by-username:<name> absent invokes the  *)
(* fetch once, stores the fetched row under that key for TTL.SHORT and       *)
(* returns it; one that finds it present within the TTL returns the stored   *)
(* value and fetches nothing                                                 *)
C9_OnceColdNeverWarm ==
    [][\A r \in Slots : (call[r].site = "login" /\ call'[r] # call[r]) =>
          LET c == call[r]
              d == call'[r]
              k == LoginKey(c.arg)
              warm == Live(store, now, k) /\ store[k].val # Null
          IN  /\ (c.pc = "get" /\ warm) =>
                    /\ d.out = "hit" /\ d.val = store[k].val /\ d.fetches = 0
                    /\ store' = store
              /\ (c.pc = "get" /\ ~warm) => (d.pc = "fetch" /\ d.fetches = 0)
              /\ c.pc = "fetch" => (d.fetches = 1 /\ d.val = RowOf(users, c.arg))
              /\ c.pc = "set" =>
                    /\ d.out = "fetched" /\ d.val = c.val /\ d.fetches = 1
                    /\ k \in DOMAIN store'
                    /\ store'[k].val = c.val
                    /\ store'[k].exp = now + TTL_SHORT
                    /\ \A x \in DOMAIN store \ {k} : x \in DOMAIN store' /\ store'[x] = store[x]]_vars

(* a warm key served a login lookup without a fetch *)
C9_Witness ==
    \E r \in Slots : call[r].site = "login" /\ call[r].out = "hit" /\ call[r].fetches = 0

(* C10: the value validateUser set under TOKEN:auth:<head> is what get      *)
(* returns until TTL.SHORT has elapsed since the set, and absent from then  *)
(* on; every entry reads as its value until its own TTL has elapsed         *)
C10_GetAfterSet ==
    /\ \A k \in DOMAIN store :
          CacheGet(store, now, storeUp, k.p, k.i) =
              IF now < store[k].at + store[k].ttl THEN store[k].val ELSE Null
    /\ AuthTokenKey \in DOMAIN store =>
          /\ store[AuthTokenKey].val \in {Decoded(id) : id \in UserIds}
          /\ CacheGet(store, now, storeUp, PREFIX_TOKEN, AuthTokenKey.i) =
                 IF now < store[AuthTokenKey].at + TTL_SHORT
                 THEN store[AuthTokenKey].val ELSE Null

(* the token entry was set and its TTL has elapsed *)
C10_Witness ==
    /\ AuthTokenKey \in DOMAIN store
    /\ now >= store[AuthTokenKey].at + TTL_SHORT
    /\ CacheGet(store, now, storeUp, PREFIX_TOKEN, AuthTokenKey.i) = Null

(* C3: a request carrying nocache=true through routeCache never reads the   *)
(* cache, is never answered by a replay, never carries the HIT marker and   *)
(* has nothing stored for it                                                *)
C3_BypassNeverTouchesCache ==
    \A r \in Slots : (rt[r].nocache /\ rt[r].method = "GET") =>
        /\ ~rt[r].read
        /\ ~rt[r].replay
        /\ ("x-cache" \in DOMAIN rt[r].hdrs => rt[r].hdrs["x-cache"] # "HIT")
        /\ rt[r].pc # "write"
        /\ ~rt[r].wrote

(* C4: a GET answered from the entry an identical earlier GET stored, within *)
(* the TTL, reaches the client with X-Cache: HIT and the stored body         *)
C4_SecondIsHit ==
    [][\A r \in Slots : (rt[r].pc = "get" /\ rt'[r].replay) =>
          LET entry == store[KeyOf(RoutePrefix, RouteKey(rt[r]))].val
          IN  /\ rt'[r].hdrs["x-cache"] = "HIT"
              /\ rt'[r].body = entry.body]_vars

(* C5: two requests that differ in method, URL, principal or, when not GET, *)
(* body never get the same cache key                                        *)
C5_DistinctRequestsDistinctKeys ==
    (kg.pc = "done" /\ (\/ kg.a.method # kg.b.method
                        \/ kg.a.url # kg.b.url
                        \/ kg.a.user # kg.b.user
                        \/ (kg.a.method # "GET" /\ kg.a.body # kg.b.body)))
        => kg.ka # kg.kb

(* the calls the wrapper is to hand straight to the original method *)
MustBypass(d) ==
    \/ d.globalOff
    \/ d.disableCache
    \/ d.include
    \/ d.transaction
    \/ (d.where # 0 /\ UsesOperator(WhereList[d.where].w))

(* C6: a wrapped call on a model with caching disabled, or passing          *)
(* disableCache, include or a transaction, or whose where uses an operator  *)
(* at any depth, never reads or writes the Cache Manager                    *)
C6_BypassWhenNotCacheable ==
    \A r \in Slots : (call[r].site = "model" /\ MustBypass(WrappedCalls[call[r].arg])) =>
        /\ call[r].pc \notin {"get", "fetch", "set"}
        /\ call[r].out \notin {"hit", "fetched"}
        /\ ~call[r].wrote

(* C7: the hook of a single-record write of id i removes <Model>:pk:<i> and *)
(* leaves every other entry as it was                                       *)
C7_HookClearsOnlyItsKey ==
    [][(wr.pc = "hook" /\ wr'.pc = "idle" /\ storeUp) =>
          LET k == KeyOf(ModelPrefix, PkKey(wr.id))
          IN  /\ k \notin DOMAIN store'
              /\ \A x \in DOMAIN store \ {k} : x \in DOMAIN store' /\ store'[x] = store[x]]_vars

(* the value a wrapped findByPk(id) is given by the cache *)
PkCached(id) == CacheGet(store, now, storeUp, ModelPrefix, PkKey(id))

(* C8: once no write of id is under way, what the cache gives a wrapped     *)
(* findByPk(id) is the record's current database state                     *)
C8_FreshAfterWrite ==
    \A id \in UserIds : ((wr.pc = "idle" \/ wr.id # id) /\ PkCached(id) # Null) =>
        PkCached(id) = RowOf(users, id)

(* C2: with every hook reaching the store and no write under way, a cached  *)
(* lookup (wrapped findByPk, wrapped findOne, validateUser's USER:<id>)     *)
(* served from the cache returns what the database holds                    *)
C2_NoStaleReadAfterHook ==
    [][\A r \in Readers :
          ( /\ call[r].site \in {"model", "auth"}
            /\ call[r].pc = "get"
            /\ call'[r].out = "hit"
            /\ wr.pc = "idle" ) =>
          call'[r].val = SiteFetch(call[r], "up", users, cfg).val]_vars

(* C11: an entry is only ever replaced as a whole.  Every set on the        *)
(* register-config key leaves exactly the value handed to it, no field of   *)
(* the earlier value merged in, and the entry changes by a set only; so     *)
(* after set a, set b a get gives b, and after any interleaving of sets a   *)
(* get gives one of the written values.                                     *)
SetterAt(r) ==
    \/ call[r].site = "cfgpost" /\ call[r].pc = "cfgset"
    \/ call[r].site = "config" /\ call[r].pc = "set"

ConfigEntryChanges ==
    /\ ConfigKey \in DOMAIN store'
    /\ (ConfigKey \notin DOMAIN store \/ store'[ConfigKey] # store[ConfigKey])

SetLeavesItsValue ==
    \A r \in Slots :
        (SetterAt(r) /\ call'[r].pc = "done" /\ storeUp) =>
            /\ ConfigKey \in DOMAIN store'
            /\ store'[ConfigKey].val = call[r].val
            /\ CacheGet(store', now', storeUp', PREFIX_CONFIG, REGISTER_CONFIG_CACHE_KEY)
                   = call[r].val

ChangeComesFromASet ==
    ConfigEntryChanges => \E r \in Slots : SetterAt(r) /\ call'[r].pc = "done"

C11_ReplacedAsAWhole == [][SetLeavesItsValue /\ ChangeComesFromASet]_vars

(* two updates have written row versions a then b; the entry is b *)
C11_Witness ==
    \E r, q \in Slots :
        /\ r # q
        /\ call[r].site = "cfgpost" /\ call[r].pc = "done" /\ call[r].wrote
        /\ call[q].site = "cfgpost" /\ call[q].pc = "done" /\ call[q].wrote
        /\ call[r].val # call[q].val
        /\ CacheGet(store, now, storeUp, PREFIX_CONFIG, REGISTER_CONFIG_CACHE_KEY) = call[q].val

(* C12: every entry in the store was written with a positive TTL, whatever  *)
(* options.ttl the route middleware was created with                        *)
C12_EveryEntryExpires ==
    \A k \in DOMAIN store : store[k].ttl > 0

(* C16: unless the middleware was created with cacheNonGetRequests, a       *)
(* non-GET request goes straight to the next handler, once: no cache read,  *)
(* no X-Cache marker, no wrapped send, no replay, nothing stored            *)
C16_NonGetPassesThrough ==
    \A r \in Slots :
        (rt[r].pc # "idle" /\ rt[r].method # "GET" /\ ~opt.cacheNonGetRequests) =>
            /\ rt[r].pc \in {"handler", "done"}
            /\ rt[r].nexts = 1
            /\ ~rt[r].read
            /\ ~rt[r].replay
            /\ ~rt[r].wrapped
            /\ ~rt[r].wrote
            /\ "x-cache" \notin DOMAIN rt[r].hdrs

(* a POST answered by its handler with a cacheable status *)
C16_Witness ==
    \E r \in Slots :
        /\ ~opt.cacheNonGetRequests
        /\ rt[r].method = "POST" /\ rt[r].pc = "done" /\ rt[r].status = 200

(* C17: on a hit the downstream handler is never invoked, and the response  *)
(* carries the stored status, the stored body and every stored header but   *)
(* content-length and content-encoding, which are not taken from the entry  *)
RouteEntry(q) == store[KeyOf(RoutePrefix, RouteKey(q))].val

HitReplaysEntry(r) ==
    LET entry == RouteEntry(rt[r])
    IN  /\ rt'[r].pc = "done"
        /\ rt'[r].nexts = 0
        /\ rt'[r].status = entry.status
        /\ rt'[r].body = entry.body
        /\ \A h \in DOMAIN entry.headers :
               IF ToLower(h) \in {"content-length", "content-encoding"}
               THEN ToLower(h) \notin DOMAIN rt'[r].hdrs
               ELSE rt'[r].hdrs[ToLower(h)] = entry.headers[h]

C17_HitReplaysStoredResponse ==
    [][\A r \in Slots : (rt[r].pc = "get" /\ rt'[r].replay) => HitReplaysEntry(r)]_vars

(* a hit on an entry stored with both excluded headers has been replayed *)
C17_Witness ==
    \E r \in Slots :
        /\ rt[r].replay /\ rt[r].pc = "done"
        /\ KeyOf(RoutePrefix, RouteKey(rt[r])) \in DOMAIN store
        /\ {"content-length", "content-encoding"} \subseteq DOMAIN RouteEntry(rt[r]).headers
        /\ rt[r].body = RouteEntry(rt[r]).body

(* C18: on a miss the marker is MISS and the handler runs behind a wrapped  *)
(* send; what the handler sends is then stored under the request's key with *)
(* the configured TTL exactly when its status is below 400, and no entry    *)
(* with a status of 400 or above is ever in the store                       *)
MissEntersHandler(r) ==
    /\ rt'[r].hdrs["x-cache"] = "MISS"
    /\ rt'[r].pc = "handler"
    /\ rt'[r].wrapped
    /\ rt'[r].nexts = 1

SendDecidesWrite(r) ==
    /\ rt'[r].pc = "write" <=> rt'[r].status < 400
    /\ rt'[r].pc = "done" <=> rt'[r].status >= 400

WriteStoresCaptured(r) ==
    LET k == KeyOf(RoutePrefix, RouteKey(rt[r]))
    IN  /\ k \in DOMAIN store'
        /\ store'[k].val.status = rt[r].status
        /\ store'[k].val.headers = rt[r].hdrs
        /\ store'[k].val.body = rt[r].body
        /\ store'[k].ttl = (IF opt.ttl.k = "undefined" THEN TTL_MEDIUM ELSE opt.ttl.n)
        /\ store'[k].at = now

MissStep ==
    /\ \A r \in Slots :
           /\ (rt[r].pc = "get" /\ rt'[r].pc # "get" /\ ~rt'[r].replay) => MissEntersHandler(r)
           /\ (rt[r].pc = "handler" /\ rt[r].wrapped /\ rt'[r].pc # "handler")
                  => SendDecidesWrite(r)
           /\ (rt[r].pc = "write" /\ rt'[r].pc = "done") => WriteStoresCaptured(r)
    /\ \A k \in DOMAIN store' : k.p = RoutePrefix => store'[k].val.status < 400

C18_MissStoresIffShouldCache == [][MissStep]_vars

(* a missed request answered with 399 has been stored as it was sent *)
C18_Witness ==
    \E r \in Slots :
        /\ rt[r].pc = "done" /\ rt[r].wrapped /\ rt[r].wrote
        /\ rt[r].status = 399
        /\ RouteEntry(rt[r]).status = 399
        /\ RouteEntry(rt[r]).body = rt[r].body

(* C13: a clearByPattern that reaches the store deletes exactly the keys    *)
(* under its prefix whose identifier matches its pattern, returns exactly   *)
(* those keys, and leaves every other key, under another prefix or under    *)
(* the same one, as it was                                                  *)
ClearTargets ==
    {k \in DOMAIN store : now < store[k].exp /\ k.p = cl.prefix /\ Matches(cl.pattern, k.i)}

ClearIsExact ==
    /\ DOMAIN store' = DOMAIN store \ ClearTargets
    /\ cl'.cleared = ClearTargets
    /\ \A k \in DOMAIN store' : store'[k] = store[k]

C13_ClearsExactlyTheMatches ==
    [][(cl.pc = "clearing" /\ cl'.pc = "done" /\ storeUp) => ClearIsExact]_vars

(* a clear has removed keys while a key under its prefix and a key under    *)
(* another prefix are still stored                                          *)
C13_Witness ==
    /\ cl.pc = "done" /\ cl.cleared # {}
    /\ \E k \in DOMAIN store : k.p = cl.prefix
    /\ \E k \in DOMAIN store : k.p # cl.prefix

(* C19: clearRouteCache calls next exactly once, and only after its clear   *)
(* (clearByPattern with a pattern configured, clearByType without) has      *)
(* finished, whether the clear removed keys, removed nothing or raised      *)
C19_NextOnceAfterClear ==
    cl.site = "route" =>
        /\ cl.via = (IF cl.pattern = <<"*">> THEN "clearByType" ELSE "clearByPattern")
        /\ cl.pc = "clearing" => (cl.nexts = 0 /\ cl.resp = "none")
        /\ cl.pc = "done" => (cl.nexts = 1 /\ cl.resp = "success")

(* the clear raised on an unreachable store and the request went on *)
C19_Witness ==
    /\ cl.site = "route" /\ cl.pc = "done"
    /\ cl.raised
    /\ cl.nexts = 1
    /\ \E k \in DOMAIN store : k.p = cl.prefix

(* C20: a failure inside an invalidation hook never propagates: whether the *)
(* hook's clearByPattern returned or raised, the create, update or destroy  *)
(* that triggered it, single-record or bulk, stays committed and reports    *)
(* success to its caller                                                    *)
HookSettles ==
    /\ wr'.pc = "idle"
    /\ wr'.reported = "success"
    /\ users' = users

C20_HookFailureSwallowed ==
    [][wr.pc = "hook" /\ wr' # wr => HookSettles]_vars

(* a bulk write whose hook raised has reported success, the entry the hook  *)
(* was to clear still cached                                                *)
C20_Witness ==
    /\ wr.pc = "idle" /\ wr.raised /\ wr.reported = "success"
    /\ wr.kind \in {"bulkCreate", "bulkUpdate", "bulkDestroy"}
    /\ \E k \in DOMAIN store : k.p = ModelPrefix /\ Matches(<<ModelName>>, k.i)

(* C14: a cache read on an unreachable store is a miss and the request goes *)
(* on as it would without a cache: validateUser verifies the token itself   *)
(* (401 for an invalid one, the token's own user otherwise) and loads the   *)
(* user from the database, routeCache runs the handler, and no step taken   *)
(* on the unreachable store answers with an error                           *)
AuthReadFailsOpen(r) ==
    LET tok == TokenList[call[r].arg]
    IN  /\ call[r].pc = "tokget" =>
               IF tok.ok
               THEN call'[r].pc = "tokset" /\ call'[r].uid = tok.id
               ELSE call'[r].pc = "done" /\ call'[r].resp = "401"
        /\ call[r].pc = "get" => call'[r].pc = "fetch"
        /\ call[r].pc = "set" =>
               (call'[r].resp = "next" /\ call'[r].val = call[r].val)
        /\ call'[r].resp \in {"none", "401", "next"}

RouteReadFailsOpen(r) ==
    /\ rt[r].pc = "get" => (rt'[r].pc = "handler" /\ rt'[r].nexts = 1 /\ ~rt'[r].replay)
    /\ rt'[r].status < 400

DegradedStep ==
    ~storeUp =>
        \A r \in Slots :
            /\ (call[r].site = "auth" /\ call'[r] # call[r] /\ call'[r].pc # "idle")
                   => AuthReadFailsOpen(r)
            /\ (rt'[r] # rt[r] /\ rt'[r].pc # "idle") => RouteReadFailsOpen(r)

RouteWriteFails(r) ==
    /\ rt'[r].pc = "done"
    /\ ~rt'[r].wrote
    /\ rt'[r].status = rt[r].status
    /\ rt'[r].body = rt[r].body
    /\ rt'[r].hdrs = rt[r].hdrs

GetOrFetchWriteFails(r) ==
    /\ call'[r].out = "fetched"
    /\ call'[r].val = call[r].val
    /\ call'[r].resp = "200"

ConfigWriteFails(r) ==
    /\ call[r].out = "updated"
    /\ call'[r].resp = "200"
    /\ call'[r].val = call[r].val
    /\ cfg' = cfg

WriteFailsStep ==
    ~storeUp =>
        /\ store' = store
        /\ \A r \in Slots :
               /\ (rt[r].pc = "write" /\ rt'[r] # rt[r]) => RouteWriteFails(r)
               /\ (call[r].pc = "set" /\ call'[r] # call[r]) => GetOrFetchWriteFails(r)
               /\ (call[r].pc = "cfgset" /\ call'[r] # call[r]) => ConfigWriteFails(r)

ClearCacheByArgument ==
    /\ cl'.resp = "keys"
    /\ cl.pattern = <<ModelName>> =>
           \A k \in DOMAIN store' : ~(k.p = ModelPrefix /\ k.i[1] = ModelName)
    /\ \A id \in {1, 7, 10} : cl.pattern = PkKey(id) =>
           /\ KeyOf(ModelPrefix, PkKey(id)) \notin DOMAIN store'
           /\ DOMAIN store \ DOMAIN store' \subseteq {KeyOf(ModelPrefix, PkKey(id))}
           /\ cl'.cleared \subseteq {KeyOf(ModelPrefix, PkKey(id))}

C21_ClearCacheByArgument ==
    [][(cl.site = "clearCache" /\ cl.pc = "clearing" /\ cl'.pc = "done")
           => ClearCacheByArgument]_vars

(* C22: on unchanged data a wrapped findByPk or findOne returns what the    *)
(* underlying method returns for the same arguments                         *)
C22_WrappedEqualsUnderlying ==
    \A r \in Slots :
        (call[r].site = "model" /\ call[r].resp = "value") =>
            call[r].val = OriginalMethod(WrappedCalls[call[r].arg], db, users, cfg).val

(* C23: validateUser calls next with req.user = P only if the token on     *)
(* that request passes verification itself and encodes P                   *)
C23_OnlyTheVerifiedPrincipal ==
    \A r \in Slots :
        (call[r].site = "auth" /\ call[r].resp = "next") =>
            /\ TokenList[call[r].arg].ok
            /\ call[r].uid = TokenList[call[r].arg].id
            /\ call[r].val.a = TokenList[call[r].arg].id

ClearLeavesNothing ==
    (cl.site = "route" /\ cl.pc = "clearing" /\ cl'.pc = "done") =>
        \A k \in DOMAIN store' :
            ~(Live(store', now, k) /\ k.p = cl.prefix /\ Matches(cl.pattern, k.i))

EntriesComeFromWrites ==
    \A k \in DOMAIN store' :
        (k \notin DOMAIN store \/ store'[k] # store[k]) =>
            \E r \in Slots : /\ rt[r].pc = "write" /\ rt'[r].pc = "done"
                             /\ k = KeyOf(RoutePrefix, RouteKey(rt[r]))
                             /\ store'[k].at = now

HitWithinTtl ==
    \A r \in Slots : (rt[r].pc = "get" /\ rt'[r].replay) =>
        LET k == KeyOf(RoutePrefix, RouteKey(rt[r]))
        IN  k \in DOMAIN store /\ now < store[k].at + RouteTtl

C25_RespondsOrCallsNextOnce ==
    \A r \in Slots :
        rt[r].pc \in {"handler", "write", "done", "rejected"} =>
            \/ rt[r].replay /\ rt[r].nexts = 0
            \/ ~rt[r].replay /\ rt[r].nexts = 1

(* C26: on a miss the wrapped send delivers the response in the step that   *)
(* leaves the handler, leaving the store untouched; a cache write is        *)
(* pending only after that; and the step that settles the write, stored or  *)
(* failed, leaves the delivered response as it was                          *)
SendDeliversFirst(r) ==
    (rt[r].pc = "handler" /\ rt[r].wrapped /\ rt'[r].pc # "handler") =>
        /\ rt'[r].status # 0
        /\ store' = store
        /\ ~rt'[r].wrote

WriteSettlesAfterSend(r) ==
    (rt[r].pc = "write" /\ rt'[r].pc # "write") =>
        /\ rt[r].status # 0
        /\ rt'[r].pc = "done"
        /\ rt'[r].wrote = storeUp
        /\ rt'[r].status = rt[r].status
        /\ rt'[r].body = rt[r].body
        /\ rt'[r].hdrs = rt[r].hdrs

C26_SendBeforeWrite ==
    [][\A r \in Slots : /\ SendDeliversFirst(r)
                        /\ WriteSettlesAfterSend(r)
                        /\ (rt'[r].pc = "write" => rt'[r].status # 0)]_vars

(* a missed request whose response was delivered and whose cache write then *)
(* failed                                                                   *)
C26_Witness ==
    \E r \in Slots :
        /\ rt[r].wrapped /\ rt[r].pc = "done" /\ rt[r].hdrs["x-cache"] = "MISS"
        /\ rt[r].status = 200 /\ ~rt[r].wrote /\ ~storeUp

(* C27 as claimed: the step in which a bulk hook of the model runs leaves   *)
(* no live entry of the model under its prefix and leaves every entry that  *)
(* is not the model's as it was                                             *)
OwnEntry(k) == k.p = ModelPrefix /\ k.i[1] = ModelName /\ k.i[2] = Colon

C27_BulkHookClearsOnlyItsModel ==
    [][(wr.pc = "hook" /\ wr'.pc = "idle"
            /\ wr.kind \in {"bulkCreate", "bulkUpdate", "bulkDestroy"}) =>
           /\ \A k \in DOMAIN store' : ~(Live(store', now, k) /\ OwnEntry(k))
           /\ \A k \in DOMAIN store :
                  (Live(store, now, k) /\ ~OwnEntry(k)) =>
                      (k \in DOMAIN store' /\ store'[k] = store[k])]_vars

(* C28: each overlapping getOrFetch call on a cold key invokes fetchFn      *)
(* itself, once, and gets the result or the error of its own invocation; a  *)
(* call whose fetch raises changes neither any other call nor the store, so *)
(* an entry another call stored stays                                       *)
FetchIsTheCallsOwn(r) ==
    (call[r].pc = "fetch" /\ call'[r].pc # "fetch") =>
        LET f == OriginalMethod(WrappedCalls[call[r].arg], db, users, cfg)
        IN  /\ call[r].fetches = 0
            /\ call'[r].fetches = 1
            /\ \A o \in Slots \ {r} : call'[o] = call[o]
            /\ IF f.raised
               THEN /\ call'[r].out = "raised" /\ call'[r].err = f.err
                    /\ call'[r].resp = "500"
                    /\ store' = store
               ELSE /\ call'[r].pc = "set" /\ call'[r].val = f.val

ReturnsItsOwnFetch(r) ==
    (call[r].pc = "set" /\ call'[r].pc # "set") =>
        /\ call'[r].out = "fetched"
        /\ call'[r].val = call[r].val
        /\ call'[r].fetches = 1
        /\ \A o \in Slots \ {r} : call'[o] = call[o]

C28_OverlappingCallsAreIndependent ==
    [][\A r \in Slots : FetchIsTheCallsOwn(r) /\ ReturnsItsOwnFetch(r)]_vars

(* two calls overlapped on the cold key: one raised its fetch error, the    *)
(* other returned its row, and the entry it stored is in the store          *)
C28_Witness ==
    \E r, o \in Slots :
        /\ r # o
        /\ call[r].site = "model" /\ call[o].site = "model"
        /\ call[r].out = "raised" /\ call[r].fetches = 1 /\ call[r].resp = "500"
        /\ call[o].out = "fetched" /\ call[o].fetches = 1 /\ call[o].wrote
        /\ CacheGet(store, now, storeUp, ModelPrefix, PkKey(1)) = call[o].val

(* C29 as claimed: a getOrSetCache call invokes fetchFunction at most once, *)
(* not at all on a hit, and a call that ends with fetchFunction's error has *)
(* invoked it once                                                          *)
C29_FetchesAtMostOnce ==
    \A r \in Slots :
        call[r].site = "service" =>
            /\ call[r].fetches <= 1
            /\ call[r].out = "hit" => call[r].fetches = 0
            /\ call[r].out = "raised" => call[r].fetches = 1

(* C30: the step in which getOrSetCache gets null or undefined from         *)
(* fetchFunction ends the call with that value and leaves the store as it   *)
(* was; no entry under the service prefix ever holds null or undefined; and *)
(* a call that finds the key absent goes on to invoke fetchFunction         *)
FetchedNothing(r) ==
    /\ call[r].pc = "svcfetch"
    /\ ~fetchFunction(call[r], db, users, cfg).raised
    /\ fetchFunction(call[r], db, users, cfg).val \in {Null, JsUndefined}

NothingIsNotStored(r) ==
    FetchedNothing(r) /\ call'[r] # call[r] =>
        /\ store' = store
        /\ call'[r].pc = "done"
        /\ ~call'[r].wrote
        /\ call'[r].val = fetchFunction(call[r], db, users, cfg).val

AbsentKeyFetchesAgain(r) ==
    (/\ call[r].pc = "svcget" /\ call'[r] # call[r]
     /\ KeyOf(ServicePrefix, ServiceKey) \notin DOMAIN store) =>
        call'[r].pc = "svcfetch"

C30_NullIsNeverStored ==
    [][/\ \A r \in Slots : NothingIsNotStored(r) /\ AbsentKeyFetchesAgain(r)
       /\ \A k \in DOMAIN store' :
              k.p = ServicePrefix => store'[k].val \notin {Null, JsUndefined}]_vars

(* a call that got null or undefined from fetchFunction has returned it and *)
(* the key is absent                                                        *)
C30_Witness ==
    \E r \in Slots :
        /\ call[r].site = "service" /\ call[r].pc = "done" /\ call[r].out = "fetched"
        /\ call[r].fetches = 1 /\ call[r].val \in {Null, JsUndefined} /\ ~call[r].wrote
        /\ KeyOf(ServicePrefix, ServiceKey) \notin DOMAIN store

====
